---- MODULE Spec2Model ----
(***************************************************************************)
(* A model of streprogen's repetition-scheme selection engine              *)
(* (streprogen/optimization.py): the RepSchemeGenerator, a lazy depth-first*)
(* generator of repetition schemes, and the RepSchemeOptimizer, which      *)
(* drains it, keeps the scheme of minimum loss and memoizes the result;    *)
(* of sample, sample_markov_loop and sample_markov_ladder                  *)
(* (streprogen/sampling.py), whose draws are random; of the exercises, days*)
(* and program (exercises.py, day.py, program.py) as far as the minimum    *)
(* repetition consistency mode reads them; and of the retry of             *)
(* optimize_mealplan.                                                      *)
(*                                                                         *)
(* Python's 0-based indices i, j are kept; self_sets[j + 1] reads          *)
(* self.sets[j].  Intensities are fixed-point numbers: an intensity x is   *)
(* held as the integer x * unit, so that the loss is an exact fraction.    *)
(***************************************************************************)
EXTENDS Integers, Sequences, FiniteSets, TLC

VARIABLES
    reps_slack,      \* RepSchemeGenerator.reps_slack
    max_diff,        \* RepSchemeGenerator.max_diff
    max_unique,      \* RepSchemeGenerator.max_unique
    self_sets,       \* RepSchemeGenerator.sets, set by the body of generate
    self_reps_goal,  \* RepSchemeGenerator.reps_goal, set by the body of generate
    iters,           \* the generator-iterators made by generate(), by identity
    cache,           \* RepSchemeOptimizer._cache: key -> scheme
    last,            \* the latest __call__: its key, outcome and returned value
    pending,         \* _optimize between the drain of the generator and min(): its schemes
    gen_calls,       \* history: key -> number of times _optimize drained the generator
    served,          \* history: key -> number of returns and the value first returned
    chain,           \* one sample_markov_loop iterator: its arguments, state and history
    sampler,         \* one sample iterator: its weights and the index it yielded last
    ladder,          \* one sample_markov_ladder iterator: its arguments, state and history
    exercises,       \* the DynamicExercise and StaticExercise objects, by identity
    days,            \* the Day objects, by identity
    program,         \* one Program: its days and its minimum repetition consistency mode
    mealplan         \* the optimize_mealplan calls on one params dictionary

genVars == <<reps_slack, max_diff, max_unique, self_sets, self_reps_goal, iters>>
optVars == <<cache, last, pending, gen_calls, served>>
samplingVars == <<chain, sampler, ladder>>
programVars == <<exercises, days, program>>
vars == <<reps_slack, max_diff, max_unique, self_sets, self_reps_goal, iters,
          cache, last, pending, gen_calls, served, chain, sampler, ladder,
          exercises, days, program, mealplan>>

----------------------------------------------------------------------------
(* Bounds of the model. *)

MaxRep == 3        \* domain values are drawn from 0..MaxRep
MaxGoal == 5       \* reps_goal is drawn from -1..MaxGoal
MaxSlack == 1      \* reps_slack is drawn from 0..MaxSlack
MaxDiff == 1       \* max_diff is drawn from 0..MaxDiff
MaxUnique == 2     \* max_unique is drawn from 1..MaxUnique
MaxSelectRep == 2  \* the domains passed to the optimizer hold values of 1..MaxSelectRep
MaxIntensity == 4  \* intensities and intensity goals are drawn from 1..MaxIntensity
MaxCalls == 3      \* the optimizer is called at most MaxCalls times in a behaviour
MaxDomainLen == 3  \* a domain given in any order, with repeats, holds at most MaxDomainLen values
MaxStates == 3     \* probabilities and structure hold at most MaxStates entries
MaxWeight == 2     \* a probability is drawn from 1..MaxWeight, a structure entry from 0..MaxWeight
MaxSamples == 3    \* at most MaxSamples states are pulled from a chain
Resolution == 4    \* random.random() returns one of 0, 1/Resolution, ..., (Resolution-1)/Resolution
MaxExercises == 2  \* at most MaxExercises exercise objects are made
MaxDays == 2       \* at most MaxDays day objects are made
MaxDayLen == 2     \* a day is given at most MaxDayLen exercises, repeats included
MaxReps == 2       \* min_reps and max_reps of an exercise are drawn from 1..MaxReps
MaxProgramDays == 2 \* a program is given at most MaxProgramDays days, repeats included
MaxAdded == 3      \* the days without a program are given at most MaxAdded exercises in all
MaxMealCalls == 4  \* optimize_mealplan is called at most MaxMealCalls times from outside

\* an intensity x is held as the integer x * Unit (0.05 is 1 / Unit)
Unit == 20

\* RepSchemeGenerator(): the generator of an optimizer made without one
DefaultRepsSlack == 3
DefaultMaxDiff == 1
DefaultMaxUnique == 3

----------------------------------------------------------------------------
(* Python built-ins used by the code. *)

\* sum(s)
RECURSIVE SumTo(_, _)
SumTo(s, n) == IF n = 0 THEN 0 ELSE s[n] + SumTo(s, n - 1)

sum(s) == SumTo(s, Len(s))

abs(x) == IF x < 0 THEN -x ELSE x

\* set(scheme): the distinct values of a sequence
set(s) == {s[x] : x \in DOMAIN s}

\* tuple(reversed(s))
RECURSIVE reversed(_)
reversed(s) == IF s = <<>> THEN <<>> ELSE Append(reversed(Tail(s)), Head(s))

\* sorted(S) for a finite set of integers: ascending
RECURSIVE sorted(_)
sorted(S) ==
    IF S = {} THEN <<>>
    ELSE LET m == CHOOSE x \in S : \A y \in S : x <= y
         IN  <<m>> \o sorted(S \ {m})

\* all the strictly ascending sequences over a finite set of integers
AscendingSeqs(S) == {sorted(T) : T \in SUBSET S}

----------------------------------------------------------------------------
(* RepSchemeGenerator as a pure function: what draining generate() yields  *)
(* when nothing else touches the generator while it runs.                  *)

\* "stack and abs(sum(stack) - reps_goal) <= reps_slack", total being sum(stack):
\* the stack is yielded
YieldsEmptyStack(stack, total, goal, slack) == abs(total - goal) <= slack
YieldsNoAbs(stack, total, goal, slack) == stack # <<>> /\ total - goal <= slack
Yields(stack, total, goal, slack) == stack # <<>> /\ abs(total - goal) <= slack

\* "sum(stack) > reps_goal + reps_slack", total being sum(stack): the search stops
\* below this stack
TooHighLate(total, goal, slack) == total > goal + slack + 1
TooHighSign(total, goal, slack) == total > goal - slack
TooHigh(total, goal, slack) == total > goal + slack

\* "not stack" or "sets[j] - stack[-1] <= max_diff": the loop body recurses on v
ExtendsOffByOne(stack, v, diff) == stack = <<>> \/ v - stack[Len(stack)] <= diff + 1
Extends(stack, v, diff) == stack = <<>> \/ v - stack[Len(stack)] <= diff

\* "len(set(scheme)) <= max_unique": generate passes the scheme on
KeptOffByOne(scheme, unique) == Cardinality(set(scheme)) <= unique + 1
Kept(scheme, unique) == Cardinality(set(scheme)) <= unique

\* "self.sets = list(sorted(set(sets)))" of generate
SetsAsGiven(sets) == sets
SortedUnique(sets) == sorted(set(sets))

\* the next value of j in "for j in range(i, len(self.sets))"
NextIndexStuck(j) == j
NextIndex(j) == j + 1

\* the loop "for j in range(i, len(sets))" of _generate_sets, from index j on;
\* total is sum(stack), carried along instead of being summed again at every call
RECURSIVE GenerateSetsLoop(_, _, _, _, _, _, _)
RECURSIVE GenerateSetsOf(_, _, _, _, _, _, _)
GenerateSetsLoop(j, stack, total, sets, goal, slack, diff) ==
    IF j >= Len(sets) THEN <<>>
    ELSE (IF Extends(stack, sets[j + 1], diff)
          THEN GenerateSetsOf(j, Append(stack, sets[j + 1]), total + sets[j + 1],
                              sets, goal, slack, diff)
          ELSE <<>>)
         \o GenerateSetsLoop(NextIndex(j), stack, total, sets, goal, slack, diff)

\* _generate_sets(i, stack) with total = sum(stack): the tuples it yields, in order
GenerateSetsOf(i, stack, total, sets, goal, slack, diff) ==
    (IF Yields(stack, total, goal, slack) THEN <<stack>> ELSE <<>>)
    \o (IF TooHigh(total, goal, slack)
        THEN <<>>
        ELSE GenerateSetsLoop(i, stack, total, sets, goal, slack, diff))

\* _generate_sets(i, stack): the tuples it yields, in order
GenerateSets(i, stack, sets, goal, slack, diff) ==
    GenerateSetsOf(i, stack, sum(stack), sets, goal, slack, diff)

\* the filter of generate: schemes with at most max_unique distinct values
PruneUnique(schemes, unique) == SelectSeq(schemes, LAMBDA scheme : Kept(scheme, unique))

\* the assertions of generate
GenerateAsserts(sets, goal) == goal >= 0 /\ \A x \in DOMAIN sets : sets[x] > 0

\* list(generator.generate(sets, reps_goal)) for a generator (slack, diff, unique)
Generate(sets, goal, slack, diff, unique) ==
    PruneUnique(GenerateSets(0, <<>>, SortedUnique(sets), goal, slack, diff), unique)

----------------------------------------------------------------------------
(* The generator as the program runs it: generate() makes an iterator whose*)
(* body runs only while a consumer pulls from it, and is suspended at each *)
(* yield.  A frame is one activation of _generate_sets: its arguments i and*)
(* stack, its loop variable j, the end n of range(i, len(self.sets)) taken *)
(* when the loop starts, and its position pc.                              *)

IterIds == {1, 2}

NoIter == [status |-> "none", sets |-> <<>>, reps_goal |-> 0, frames |-> <<>>, out |-> <<>>]

Frame(i, stack) == [i |-> i, j |-> i, n |-> 0, stack |-> stack, pc |-> "entry"]

Top(k) == iters[k].frames[Len(iters[k].frames)]

Running(k) == iters[k].status = "running"

\* the frames with the top one replaced
SetTop(k, f) == [iters[k].frames EXCEPT ![Len(iters[k].frames)] = f]

\* the frames after the top one returned
Pop(k) == SubSeq(iters[k].frames, 1, Len(iters[k].frames) - 1)

\* "return" of the top frame: with no frame left the for loop of generate ends
Return(k) ==
    iters' = [iters EXCEPT ![k].frames = Pop(k),
                           ![k].status = IF Len(iters[k].frames) = 1
                                         THEN "exhausted" ELSE "running"]

\* generator.generate(sets, reps_goal): makes the iterator, runs nothing yet
GenerateCall(k, sets, goal) ==
    /\ iters[k].status = "none"
    /\ iters' = [iters EXCEPT ![k] = [NoIter EXCEPT !.status = "created",
                                                    !.sets = sets,
                                                    !.reps_goal = goal]]
    /\ UNCHANGED <<reps_slack, max_diff, max_unique, self_sets, self_reps_goal, optVars, samplingVars, programVars, mealplan>>

\* the first next(): the assertions and the two assignments of generate, then
\* the call _generate_sets(stack=[])
Begin(k) ==
    /\ iters[k].status = "created"
    /\ \A o \in IterIds : ~Running(o)
    /\ IF GenerateAsserts(iters[k].sets, iters[k].reps_goal)
       THEN /\ self_sets' = SortedUnique(iters[k].sets)
            /\ self_reps_goal' = iters[k].reps_goal
            /\ iters' = [iters EXCEPT ![k].status = "running",
                                      ![k].frames = <<Frame(0, <<>>)>>]
       ELSE /\ iters' = [iters EXCEPT ![k].status = "AssertionError"]
            /\ UNCHANGED <<self_sets, self_reps_goal>>
    /\ UNCHANGED <<reps_slack, max_diff, max_unique, optVars, samplingVars, programVars, mealplan>>

\* a later next(): the body goes on after the yield it was suspended at
Resume(k) ==
    /\ iters[k].status = "suspended"
    /\ \A o \in IterIds : ~Running(o)
    /\ iters' = [iters EXCEPT ![k].status = "running"]
    /\ UNCHANGED <<reps_slack, max_diff, max_unique, self_sets, self_reps_goal, optVars, samplingVars, programVars, mealplan>>

\* _generate_sets, "if stack and abs(sum(stack) - reps_goal) <= reps_slack: yield",
\* and the filter of generate on what is yielded up to it
Entry(k) ==
    /\ Running(k)
    /\ Top(k).pc = "entry"
    /\ LET f == Top(k)
           hit == Yields(f.stack, sum(f.stack), self_reps_goal, reps_slack)
           kept == Kept(f.stack, max_unique)
       IN  iters' = [iters EXCEPT
                ![k].frames = SetTop(k, [f EXCEPT !.pc = "check"]),
                ![k].status = IF hit /\ kept THEN "suspended" ELSE "running",
                ![k].out = IF hit /\ kept THEN Append(@, f.stack) ELSE @]
    /\ UNCHANGED <<reps_slack, max_diff, max_unique, self_sets, self_reps_goal, optVars, samplingVars, programVars, mealplan>>

\* _generate_sets, "if sum(stack) > reps_goal + reps_slack: return", else the
\* for loop starts and range(i, len(self.sets)) is fixed
Check(k) ==
    /\ Running(k)
    /\ Top(k).pc = "check"
    /\ IF TooHigh(sum(Top(k).stack), self_reps_goal, reps_slack)
       THEN Return(k)
       ELSE iters' = [iters EXCEPT
                ![k].frames = SetTop(k, [Top(k) EXCEPT !.pc = "loop",
                                                       !.n = Len(self_sets)])]
    /\ UNCHANGED <<reps_slack, max_diff, max_unique, self_sets, self_reps_goal, optVars, samplingVars, programVars, mealplan>>

\* one iteration of "for j in range(i, len(self.sets))"
Loop(k) ==
    /\ Running(k)
    /\ Top(k).pc = "loop"
    /\ LET f == Top(k)
       IN  IF f.j >= f.n
           THEN Return(k)
           ELSE IF f.j >= Len(self_sets)
           THEN iters' = [iters EXCEPT ![k].status = "IndexError"]
           ELSE IF Extends(f.stack, self_sets[f.j + 1], max_diff)
           THEN iters' = [iters EXCEPT
                    ![k].frames = Append(SetTop(k, [f EXCEPT !.j = NextIndex(f.j)]),
                                         Frame(f.j, Append(f.stack, self_sets[f.j + 1])))]
           ELSE iters' = [iters EXCEPT
                    ![k].frames = SetTop(k, [f EXCEPT !.j = NextIndex(f.j)])]
    /\ UNCHANGED <<reps_slack, max_diff, max_unique, self_sets, self_reps_goal, optVars, samplingVars, programVars, mealplan>>

----------------------------------------------------------------------------
(* RepSchemeOptimizer.  A loss is the exact fraction <<numerator,          *)
(* denominator>> of the value the code computes in floating point.         *)

\* a / b < c / d for a, c >= 0 and b, d > 0, by continued fractions (no product
\* of two large numbers is formed)
RECURSIVE FracLess(_, _, _, _)
FracLess(a, b, c, d) ==
    IF a \div b # c \div d THEN a \div b < c \div d
    ELSE IF c % d = 0 THEN FALSE
    ELSE IF a % b = 0 THEN TRUE
    ELSE FracLess(d, c % d, b, a % b)

\* reps_to_intensity_dict = {r_j: i_j for (r_j, i_j) in zip(sets, intensities)}:
\* zip stops at the shorter one, a later pair replaces an earlier one of the same key
ZipLen(sets, intensities) == IF Len(sets) < Len(intensities) THEN Len(sets) ELSE Len(intensities)

\* the dict of the first n pairs
RECURSIVE DictOfPairs(_, _, _)
DictOfPairs(sets, intensities, n) ==
    IF n = 0 THEN <<>>
    ELSE (sets[n] :> intensities[n]) @@ DictOfPairs(sets, intensities, n - 1)

RepsToIntensityDict(sets, intensities) ==
    DictOfPairs(sets, intensities, ZipLen(sets, intensities))

\* sum(r * i for r, i in zip(scheme, intensities)) of loss
RECURSIVE WeightedSumTo(_, _, _)
WeightedSumTo(scheme, dict, n) ==
    IF n = 0 THEN 0 ELSE scheme[n] * dict[scheme[n]] + WeightedSumTo(scheme, dict, n - 1)

WeightedSum(scheme, dict) == WeightedSumTo(scheme, dict, Len(scheme))

\* loss(scheme) = (reps - reps_goal) ** 2 + (intensity - intensity_goal) ** 2 with
\* intensity = WeightedSum / reps: Unit ** 2 times the loss, as a fraction over reps ** 2
LossOf(reps, weighted, reps_goal, intensity_goal) ==
    <<(reps - reps_goal) * (reps - reps_goal) * (Unit * reps) * (Unit * reps)
        + (weighted - intensity_goal * reps) * (weighted - intensity_goal * reps),
      reps * reps>>

LossRepsOnly(scheme, dict, reps_goal, intensity_goal) ==
    LossOf(sum(scheme), intensity_goal * sum(scheme), reps_goal, intensity_goal)
Loss(scheme, dict, reps_goal, intensity_goal) ==
    LossOf(sum(scheme), WeightedSum(scheme, dict), reps_goal, intensity_goal)

\* min() replaces the scheme it holds only by one of a strictly smaller key
ReplacesOrTies(new, held) == ~FracLess(held[1], held[2], new[1], new[2])
ReplacesLarger(new, held) == FracLess(held[1], held[2], new[1], new[2])
Replaces(new, held) == FracLess(new[1], new[2], held[1], held[2])

\* min(schemes, key=loss) over schemes[lo..hi], as <<scheme, loss>>.  min() goes
\* through the schemes from left to right; "the earlier one unless the later one
\* replaces it" is associative, so the range is halved to keep the recursion
\* shallow and each loss is still computed once.
RECURSIVE MinOfRange(_, _, _, _, _, _)
MinOfRange(schemes, lo, hi, dict, reps_goal, intensity_goal) ==
    IF lo = hi
    THEN <<schemes[lo], Loss(schemes[lo], dict, reps_goal, intensity_goal)>>
    ELSE LET mid == (lo + hi) \div 2
             held == MinOfRange(schemes, lo, mid, dict, reps_goal, intensity_goal)
             new == MinOfRange(schemes, mid + 1, hi, dict, reps_goal, intensity_goal)
         IN  IF Replaces(new[2], held[2]) THEN new ELSE held

\* min(schemes, key=loss) of a non-empty sequence of schemes
Min(schemes, dict, reps_goal, intensity_goal) ==
    MinOfRange(schemes, 1, Len(schemes), dict, reps_goal, intensity_goal)[1]

\* list(reversed(...)) of _optimize
NotReversed(scheme) == scheme
Reversed(scheme) == reversed(scheme)

\* the assertions of __call__ (sets and intensities are tuples in this model)
CallAssertsNoGoal(sets, intensities, reps_goal, intensity_goal) ==
    /\ intensity_goal > Unit
    /\ \A x \in DOMAIN intensities : intensities[x] > Unit
    /\ \A x \in 1..(Len(sets) - 1) : sets[x] <= sets[x + 1]
CallAssertsGoalInTable(sets, intensities, reps_goal, intensity_goal) ==
    /\ reps_goal > 0
    /\ intensity_goal > Unit
    /\ \A x \in DOMAIN intensities : intensities[x] > Unit
    /\ \A x \in 1..(Len(sets) - 1) : sets[x] <= sets[x + 1]
    /\ \E x, y \in DOMAIN intensities :
          intensities[x] <= intensity_goal /\ intensity_goal <= intensities[y]
CallAsserts(sets, intensities, reps_goal, intensity_goal) ==
    /\ reps_goal > 0
    /\ intensity_goal > Unit
    /\ \A x \in DOMAIN intensities : intensities[x] > Unit
    /\ \A x \in 1..(Len(sets) - 1) : sets[x] <= sets[x + 1]

\* "args = (sets, intensities, reps_goal, intensity_goal)": the key of the cache
CacheKeyNoGoal(key) == <<key[1], key[2], key[3]>>
CacheKey(key) == key

\* "self._cache[args] = ..."
StoreNothing(c, key, value) == c
Store(c, key, value) == (key :> value) @@ c

\* how _optimize ends given what the generator yields: min() of nothing raises
\* ValueError, a repetition count that is no key of the dict raises KeyError
OptimizeOutcome(schemes, dict) ==
    IF schemes = <<>> THEN "ValueError"
    ELSE IF \E x \in DOMAIN schemes : ~(set(schemes[x]) \subseteq DOMAIN dict) THEN "KeyError"
    ELSE "returned"

Drains(key) == IF key \in DOMAIN gen_calls THEN gen_calls[key] ELSE 0

Returns(key) == IF key \in DOMAIN served THEN served[key].n ELSE 0

\* the histories after a return of value for key
Serve(key, value) ==
    IF key \in DOMAIN served
    THEN [served EXCEPT ![key].n = @ + 1]
    ELSE (key :> [n |-> 1, first |-> value]) @@ served

TotalCalls == last.n

\* the record of a call that ended
Ended(key, outcome, value, hit) ==
    [key |-> key, outcome |-> outcome, value |-> value, hit |-> hit, n |-> last.n + 1]

\* the end of a cache miss: _optimize raised, or its value is stored and returned
MissMemoizesFailure(key, outcome, value) ==
    /\ cache' = Store(cache, CacheKey(key), value)
    /\ last' = Ended(key, outcome, value, FALSE)
    /\ IF outcome = "returned" THEN served' = Serve(key, value) ELSE UNCHANGED served
Miss(key, outcome, value) ==
    IF outcome = "returned"
    THEN /\ cache' = Store(cache, CacheKey(key), value)
         /\ last' = Ended(key, "returned", value, FALSE)
         /\ served' = Serve(key, value)
    ELSE /\ last' = Ended(key, outcome, <<>>, FALSE)
         /\ UNCHANGED <<cache, served>>

\* _optimize from min() on, given what the generator yielded
Optimize(key, schemes, dict) ==
    \E outcome \in {OptimizeOutcome(schemes, dict)} :
        \E value \in {IF outcome = "returned"
                       THEN Reversed(Min(schemes, dict, key[3], key[4]))
                       ELSE <<>>} :
            Miss(key, outcome, value)

\* RepSchemeOptimizer.__call__(sets, intensities, reps_goal, intensity_goal), with
\* _optimize on a cache miss
Call(key) ==
    LET sets == key[1]
        intensities == key[2]
        reps_goal == key[3]
        intensity_goal == key[4]
    IN  /\ TotalCalls < MaxCalls
        /\ pending = <<>>
        /\ UNCHANGED <<reps_slack, max_diff, max_unique, iters, pending, samplingVars, programVars, mealplan>>
        /\ IF ~CallAsserts(sets, intensities, reps_goal, intensity_goal)
           THEN /\ last' = Ended(key, "AssertionError", <<>>, FALSE)
                /\ UNCHANGED <<self_sets, self_reps_goal, cache, gen_calls, served>>
           ELSE IF CacheKey(key) \in DOMAIN cache
           THEN /\ last' = Ended(key, "returned", cache[CacheKey(key)], TRUE)
                /\ served' = Serve(key, cache[CacheKey(key)])
                /\ UNCHANGED <<self_sets, self_reps_goal, cache, gen_calls>>
           ELSE /\ gen_calls' = (key :> Drains(key) + 1) @@ gen_calls
                /\ IF ~GenerateAsserts(sets, reps_goal)
                   THEN /\ last' = Ended(key, "AssertionError", <<>>, FALSE)
                        /\ UNCHANGED <<self_sets, self_reps_goal, cache, served>>
                   ELSE /\ self_sets' = SortedUnique(sets)
                        /\ self_reps_goal' = reps_goal
                        /\ Optimize(key,
                                    Generate(sets, reps_goal, reps_slack, max_diff, max_unique),
                                    RepsToIntensityDict(sets, intensities))

\* the caller changes in place a list that select returned for key: the list is
\* the very object stored in _cache ("return self._cache[args]"), so the entry
\* changes with it.  The changes are list.pop() and list.reverse().
CallerModifies(key, method) ==
    /\ key \in DOMAIN cache
    /\ cache[key] # <<>>
    /\ cache' = [cache EXCEPT ![key] = IF method = "pop"
                                       THEN SubSeq(@, 1, Len(@) - 1)
                                       ELSE reversed(@)]
    /\ UNCHANGED <<genVars, pending, last, gen_calls, served, samplingVars, programVars,
                   mealplan>>

----------------------------------------------------------------------------
(* sample_markov_loop.  Probabilities and structure entries are integers   *)
(* (any rational arguments are, up to a common factor); the weights of a   *)
(* draw are held as the integers probabilities[state] * sum(structure)     *)
(* times the code's to_draw_probs, so that every comparison is exact.      *)

\* "structure = [0.01, 0.99]" of a call without structure, times 100
DefaultStructure == <<1, 99>>

NoChain == [status |-> "none", probabilities |-> <<>>, structure |-> <<>>,
            state |-> 0, previous |-> 0, samples |-> 0]

\* "structure + [0] * (len(probabilities) - len(structure))", entry d, 0-based
Padded(structure, d) == IF d < Len(structure) THEN structure[d + 1] ELSE 0

\* min(probabilities)
MinOf(probabilities) ==
    CHOOSE m \in set(probabilities) : \A p \in set(probabilities) : m <= p

\* to_draw_probs[i] in state `state`, times probabilities[state] * sum(structure):
\* roll(structure, state)[i] is structure[(i - state) % size]; structure[0] holds
\* the sum S of the other entries and the diagonal entry is probabilities[state] - S
ToDraw(probabilities, structure, state, i) ==
    LET size == Len(probabilities)
        d == (i - state) % size
    IN  IF i = state
        THEN probabilities[state + 1] * sum(structure)
             - MinOf(probabilities) * (sum(structure) - structure[1])
        ELSE MinOf(probabilities) * Padded(structure, d)

\* cumsum[i] of sample, 0-based
RECURSIVE Cumsum(_, _, _, _)
Cumsum(probabilities, structure, state, i) ==
    ToDraw(probabilities, structure, state, i)
    + (IF i = 0 THEN 0 ELSE Cumsum(probabilities, structure, state, i - 1))

\* bisect.bisect_left(cumsum, pick) for pick = (r / Resolution) * cumsum[-1]: the
\* first index whose cumsum is at least pick, len(cumsum) when there is none;
\* random.random() lies in [0.0, 1.0), so r = 0 is one of its values
BisectLeft(probabilities, structure, state, r) ==
    LET size == Len(probabilities)
        total == Cumsum(probabilities, structure, state, size - 1)
        atleast == { i \in 0..(size - 1) :
                       Cumsum(probabilities, structure, state, i) * Resolution >= r * total }
    IN  IF atleast = {} THEN size ELSE CHOOSE i \in atleast : \A o \in atleast : i <= o

\* sample_markov_loop(probabilities, structure): makes the iterator, runs nothing yet
MarkovCall(probabilities, structure) ==
    /\ chain.status = "none"
    /\ chain' = [NoChain EXCEPT !.status = "created",
                                !.probabilities = probabilities,
                                !.structure = structure]
    /\ UNCHANGED <<genVars, optVars, sampler, ladder, programVars, mealplan>>

\* the first next(): the body up to "yield state" with state = 0
MarkovFirst ==
    /\ chain.status = "created"
    /\ chain' = [chain EXCEPT
            !.status = IF Len(chain.structure) > Len(chain.probabilities) THEN "AssertionError"
                       ELSE IF chain.probabilities = <<>> THEN "ValueError"
                       ELSE IF sum(chain.structure) = 0 THEN "ZeroDivisionError"
                       ELSE "yielded",
            !.samples = IF /\ Len(chain.structure) <= Len(chain.probabilities)
                           /\ chain.probabilities # <<>>
                           /\ sum(chain.structure) # 0
                        THEN 1 ELSE 0]
    /\ UNCHANGED <<genVars, optVars, sampler, ladder, programVars, mealplan>>

\* a later next(): one turn of "while True", the draw being r / Resolution
MarkovStep(r) ==
    /\ chain.status = "yielded"
    /\ chain.samples < MaxSamples
    /\ chain' = [chain EXCEPT
            !.previous = chain.state,
            !.state = BisectLeft(chain.probabilities, chain.structure, chain.state, r),
            !.samples = @ + 1]
    /\ UNCHANGED <<genVars, optVars, sampler, ladder, programVars, mealplan>>

\* all the sequences over S of length at most n
AnySeqs(S, n) == UNION { [1..m -> S] : m \in 0..n }

ProbabilityInputs == AnySeqs(1..MaxWeight, MaxStates)
StructureInputs == AnySeqs(0..MaxWeight, MaxStates) \cup {DefaultStructure}

MarkovNext ==
    \/ \E probabilities \in ProbabilityInputs, structure \in StructureInputs :
          MarkovCall(probabilities, structure)
    \/ MarkovFirst
    \/ \E r \in 0..(Resolution - 1) : MarkovStep(r)

----------------------------------------------------------------------------
(* Exercises, days and the program (streprogen/exercises.py, day.py,       *)
(* program.py).  Objects are held by identity; None is 0 for a day and     *)
(* "None" for a mode.                                                      *)

ExerciseIds == 1..MaxExercises
DayIds == 1..MaxDays

\* the (min_reps, max_reps) pairs an exercise is made with: the constructor
\* raises ValueError when min_reps > max_reps
RepRanges == { r \in (1..MaxReps) \X (1..MaxReps) : r[1] <= r[2] }

NoExercise == [kind |-> "none", min_reps |-> 0, max_reps |-> 0, day |-> 0]
NoExercises == [e \in ExerciseIds |-> NoExercise]

NoDay == [status |-> "none", dynamic_exercises |-> <<>>, static_exercises |-> <<>>,
          added |-> <<>>]
NoDays == [d \in DayIds |-> NoDay]

NoProgram == [status |-> "none", min_reps_consistency |-> "None",
              _min_reps_consistency |-> "unset", days |-> <<>>]

\* DynamicExercise(name, min_reps=..., max_reps=...): "self.day = None"
DynamicExerciseCall(e, min_reps, max_reps) ==
    /\ exercises[e].kind = "none"
    /\ \A o \in ExerciseIds : o < e => exercises[o].kind # "none"
    /\ min_reps <= max_reps
    /\ exercises' = [exercises EXCEPT ![e] =
            [kind |-> "dynamic", min_reps |-> min_reps, max_reps |-> max_reps, day |-> 0]]
    /\ UNCHANGED <<genVars, optVars, samplingVars, days, program, mealplan>>

\* StaticExercise(name, sets_reps)
StaticExerciseCall(e) ==
    /\ exercises[e].kind = "none"
    /\ \A o \in ExerciseIds : o < e => exercises[o].kind # "none"
    /\ exercises' = [exercises EXCEPT ![e] = [NoExercise EXCEPT !.kind = "static"]]
    /\ UNCHANGED <<genVars, optVars, samplingVars, days, program, mealplan>>

\* one turn of "for exercise in exercises" of Day.add_exercises, on the pair
\* of all days and all exercises
AddOneNoDay(objs, d, e) ==
    [days |-> [objs.days EXCEPT
            ![d].dynamic_exercises =
                IF objs.exercises[e].kind = "dynamic" THEN Append(@, e) ELSE @,
            ![d].static_exercises =
                IF objs.exercises[e].kind = "static" THEN Append(@, e) ELSE @,
            ![d].added = Append(@, e)],
     exercises |-> objs.exercises]
AddOne(objs, d, e) ==
    [days |-> [objs.days EXCEPT
            ![d].dynamic_exercises =
                IF objs.exercises[e].kind = "dynamic" THEN Append(@, e) ELSE @,
            ![d].static_exercises =
                IF objs.exercises[e].kind = "static" THEN Append(@, e) ELSE @,
            ![d].added = Append(@, e)],
     exercises |-> [objs.exercises EXCEPT
            ![e].day = IF objs.exercises[e].kind = "dynamic" THEN d ELSE @]]

\* Day.add_exercises(*exs) after the first n of exs
RECURSIVE AddFrom(_, _, _, _)
AddFrom(objs, d, exs, n) ==
    IF n = 0 THEN objs ELSE AddOne(AddFrom(objs, d, exs, n - 1), d, exs[n])

\* the exercise lists passed to Day(...) and to add_exercises
ExerciseLists == UNION { [1..m -> ExerciseIds] : m \in 0..MaxDayLen }

\* Day(name, exercises): the empty day, then add_exercises(*tuple(exercises))
DayCall(d, exs) ==
    /\ days[d].status = "none"
    /\ \A o \in DayIds : o < d => days[o].status # "none"
    /\ \A x \in DOMAIN exs : exercises[exs[x]].kind # "none"
    /\ \E objs \in {AddFrom([days |-> [days EXCEPT ![d].status = "made"],
                             exercises |-> exercises], d, exs, Len(exs))} :
          /\ days' = objs.days
          /\ exercises' = objs.exercises
    /\ UNCHANGED <<genVars, optVars, samplingVars, program, mealplan>>

\* day.add_exercises(*exs)
AddExercises(d, exs) ==
    /\ days[d].status = "made"
    /\ exs # <<>>
    /\ Len(days[d].added) + Len(exs) <= MaxDayLen
    /\ \A x \in DOMAIN exs : exercises[exs[x]].kind # "none"
    /\ \E objs \in {AddFrom([days |-> days, exercises |-> exercises], d, exs, Len(exs))} :
          /\ days' = objs.days
          /\ exercises' = objs.exercises
    /\ UNCHANGED <<genVars, optVars, samplingVars, program, mealplan>>

\* the values of the min_reps_consistency argument
Modes == {"weekly", "daily", "exercise"}

\* Program(name, min_reps_consistency=m): "self.days = []"
ProgramCall(m) ==
    /\ program.status = "none"
    /\ program' = [NoProgram EXCEPT !.status = "made", !.min_reps_consistency = m]
    /\ UNCHANGED <<genVars, optVars, samplingVars, exercises, days, mealplan>>

\* program.add_days(day)
AddDays(d) ==
    /\ program.status = "made"
    /\ days[d].status = "made"
    /\ Len(program.days) < MaxProgramDays
    /\ program' = [program EXCEPT !.days = Append(@, d)]
    /\ UNCHANGED <<genVars, optVars, samplingVars, exercises, days, mealplan>>

\* utils.all_equal: False for an iterable of length 0 or 1
all_equal(iterable) ==
    /\ Len(iterable) \notin {0, 1}
    /\ \A x \in 2..Len(iterable) : iterable[1] = iterable[x]

\* [field of dynamic_ex for dynamic_ex in day.dynamic_exercises] for one day
MinReps(d) == [x \in DOMAIN days[d].dynamic_exercises |->
                  exercises[days[d].dynamic_exercises[x]].min_reps]
MaxRepsOf(d) == [x \in DOMAIN days[d].dynamic_exercises |->
                  exercises[days[d].dynamic_exercises[x]].max_reps]

\* the same lists over the first n days of the program
RECURSIVE AllMinReps(_)
AllMinReps(n) == IF n = 0 THEN <<>> ELSE AllMinReps(n - 1) \o MinReps(program.days[n])
RECURSIVE AllMaxReps(_)
AllMaxReps(n) == IF n = 0 THEN <<>> ELSE AllMaxReps(n - 1) \o MaxRepsOf(program.days[n])

\* "Check whether the mode is WEEKLY"
DetectWeekly ==
    /\ all_equal(AllMinReps(Len(program.days)))
    /\ all_equal(AllMaxReps(Len(program.days)))

\* "Check if mode is DAILY": no day fails the test
DetectDaily ==
    \A x \in DOMAIN program.days :
        all_equal(MinReps(program.days[x])) /\ all_equal(MaxRepsOf(program.days[x]))

\* Program._autoset_min_reps_consistency: the two detections return at once;
\* the user's value is looked at only when the detection falls through to 'daily'
AutosetMinRepsConsistency ==
    /\ program.status = "made"
    /\ program' = [program EXCEPT
            !.status =
                IF /\ ~DetectWeekly
                   /\ DetectDaily
                   /\ program.min_reps_consistency = "weekly"
                THEN "ProgramError" ELSE "autoset",
            !._min_reps_consistency =
                IF DetectWeekly THEN "weekly"
                ELSE IF ~DetectDaily THEN "exercise"
                ELSE IF program.min_reps_consistency \in {"None", "weekly"} THEN "daily"
                ELSE program.min_reps_consistency]
    /\ UNCHANGED <<genVars, optVars, samplingVars, exercises, days, mealplan>>

\* programs of dynamic exercises: exercises, days, one program, then the autoset
ProgramNext ==
    \/ \E e \in ExerciseIds, r \in RepRanges : DynamicExerciseCall(e, r[1], r[2])
    \/ \E d \in DayIds, exs \in ExerciseLists : DayCall(d, exs)
    \/ \E m \in Modes \cup {"None"} : ProgramCall(m)
    \/ \E d \in DayIds : AddDays(d)
    \/ AutosetMinRepsConsistency

\* the number of exercises given to the days so far, repeats included
RECURSIVE TotalAdded(_)
TotalAdded(d) == IF d = 0 THEN 0 ELSE Len(days[d].added) + TotalAdded(d - 1)

\* days and exercises of both kinds, all of one repetition range (the days
\* never read it), until MaxAdded exercises were given to the days
DayNext ==
    \/ \E e \in ExerciseIds : DynamicExerciseCall(e, 1, 1)
    \/ \E e \in ExerciseIds : StaticExerciseCall(e)
    \/ \E d \in DayIds, exs \in ExerciseLists :
          TotalAdded(MaxDays) + Len(exs) <= MaxAdded /\ DayCall(d, exs)
    \/ \E d \in DayIds, exs \in ExerciseLists :
          TotalAdded(MaxDays) + Len(exs) <= MaxAdded /\ AddExercises(d, exs)

----------------------------------------------------------------------------
(* sample and sample_markov_ladder (streprogen/sampling.py).  Weights are  *)
(* integers; a draw is r / Resolution with r in 0..Resolution-1.           *)

NoSampler == [status |-> "none", weights |-> <<>>, index |-> 0, samples |-> 0]

\* list(itertools.accumulate(weights))[i - 1]: the sum of the first i weights
accumulate(weights, i) == SumTo(weights, i)

\* bisect.bisect_left(cumsum, pick), 0-based, for pick = (r / Resolution) * cumsum[-1]
bisect_left(weights, r) ==
    LET atleast == { i \in DOMAIN weights :
                       accumulate(weights, i) * Resolution
                           >= r * accumulate(weights, Len(weights)) }
    IN  IF atleast = {} THEN Len(weights)
        ELSE (CHOOSE i \in atleast : \A o \in atleast : i <= o) - 1

\* sample(weights): makes the iterator, runs nothing yet
SampleCall(weights) ==
    /\ sampler.status = "none"
    /\ sampler' = [NoSampler EXCEPT !.status = "created", !.weights = weights]
    /\ UNCHANGED <<genVars, optVars, chain, ladder, programVars, mealplan>>

\* next() on the iterator of sample: the asserts and the cumsum on the first
\* next, then one turn of "while True" with the draw r / Resolution
SampleNext(r) ==
    /\ sampler.status \in {"created", "yielded"}
    /\ sampler.samples < MaxSamples
    /\ sampler' =
          IF \E x \in DOMAIN sampler.weights : sampler.weights[x] < 0
          THEN [sampler EXCEPT !.status = "AssertionError"]
          ELSE IF sampler.weights = <<>>
          THEN [sampler EXCEPT !.status = "IndexError"]
          ELSE [sampler EXCEPT !.status = "yielded",
                               !.index = bisect_left(sampler.weights, r),
                               !.samples = @ + 1]
    /\ UNCHANGED <<genVars, optVars, chain, ladder, programVars, mealplan>>

WeightInputs == AnySeqs((-1)..MaxWeight, MaxStates)

SamplerNext ==
    \/ \E weights \in WeightInputs : SampleCall(weights)
    \/ \E r \in 0..(Resolution - 1) : SampleNext(r)

NoLadder == [status |-> "none", probabilities |-> <<>>, structure |-> <<>>,
             state |-> 0, previous |-> 0, samples |-> 0,
             to_draw_probs |-> <<>>, future_states_filtered |-> <<>>, state_index |-> 0]

\* range(lo, hi) as a tuple
range(lo, hi) == [x \in 1..(IF hi > lo THEN hi - lo ELSE 0) |-> lo + x - 1]

min(a, b) == IF a <= b THEN a ELSE b

\* structure[i] / probabilities[state] of the ladder, times
\* 2 * sum(structure) * probabilities[state]
Rung(probabilities, structure, i) == MinOf(probabilities) * structure[i + 1]

\* left_probs: i runs over reversed(range(1, min(k, state + 1)))
LeftProbs(probabilities, structure, state) ==
    LET is == reversed(range(1, min(Len(structure), state + 1)))
    IN  [x \in DOMAIN is |-> Rung(probabilities, structure, is[x])]

\* right_probs: i runs over range(1, min(k, n - state))
RightProbs(probabilities, structure, state) ==
    LET is == range(1, min(Len(structure), Len(probabilities) - state))
    IN  [x \in DOMAIN is |-> Rung(probabilities, structure, is[x])]

\* center_prob: [1 - sum(left_probs) - sum(right_probs)], in the same unit
CenterProb(probabilities, structure, state) ==
    << 2 * sum(structure) * probabilities[state + 1]
       - sum(LeftProbs(probabilities, structure, state))
       - sum(RightProbs(probabilities, structure, state)) >>

\* to_draw_probs = left_probs + center_prob + right_probs
LadderToDraw(probabilities, structure, state) ==
    LeftProbs(probabilities, structure, state)
        \o CenterProb(probabilities, structure, state)
        \o RightProbs(probabilities, structure, state)

\* [s for s in future_states if abs(state - s) < k]
FutureStatesFilteredWide(probabilities, structure, state) ==
    SelectSeq(range(0, Len(probabilities)), LAMBDA s : abs(state - s) <= Len(structure))
FutureStatesFiltered(probabilities, structure, state) ==
    SelectSeq(range(0, Len(probabilities)), LAMBDA s : abs(state - s) < Len(structure))

\* sample_markov_ladder(probabilities, structure): makes the iterator
LadderCall(probabilities, structure) ==
    /\ ladder.status = "none"
    /\ ladder' = [NoLadder EXCEPT !.status = "created",
                                 !.probabilities = probabilities,
                                 !.structure = structure]
    /\ UNCHANGED <<genVars, optVars, chain, sampler, programVars, mealplan>>

\* the first next(): the body up to "yield state" with state = 0
LadderFirst ==
    /\ ladder.status = "created"
    /\ \E raised \in {
            IF Len(ladder.structure) > Len(ladder.probabilities) THEN "AssertionError"
            ELSE IF ladder.probabilities = <<>> THEN "ValueError"
            ELSE IF ladder.structure = <<>> THEN "IndexError"
            ELSE IF sum(ladder.structure) = 0 THEN "ZeroDivisionError"
            ELSE "no"} :
          ladder' = IF raised = "no"
                    THEN [ladder EXCEPT !.status = "yielded", !.samples = 1]
                    ELSE [ladder EXCEPT !.status = raised]
    /\ UNCHANGED <<genVars, optVars, chain, sampler, programVars, mealplan>>

\* a later next(): one turn of "while True", the draw being r / Resolution
LadderStep(r) ==
    /\ ladder.status = "yielded"
    /\ ladder.samples < MaxSamples
    /\ \E to_draw_probs \in {LadderToDraw(ladder.probabilities, ladder.structure,
                                          ladder.state)},
          filtered \in {FutureStatesFiltered(ladder.probabilities, ladder.structure,
                                             ladder.state)} :
          \E state_index \in {bisect_left(to_draw_probs, r)} :
              ladder' =
                  IF state_index + 1 \in DOMAIN filtered
                  THEN [ladder EXCEPT !.previous = ladder.state,
                                      !.state = filtered[state_index + 1],
                                      !.samples = @ + 1,
                                      !.to_draw_probs = to_draw_probs,
                                      !.future_states_filtered = filtered,
                                      !.state_index = state_index]
                  ELSE [ladder EXCEPT !.status = "IndexError",
                                      !.to_draw_probs = to_draw_probs,
                                      !.future_states_filtered = filtered,
                                      !.state_index = state_index]
    /\ UNCHANGED <<genVars, optVars, chain, sampler, programVars, mealplan>>

\* the structures of the ladder: a step is allowed (1) or not (0), or the default
LadderStructureInputs == AnySeqs(0..1, MaxStates) \cup {DefaultStructure}

LadderNext ==
    \/ \E probabilities \in ProbabilityInputs, structure \in LadderStructureInputs :
          LadderCall(probabilities, structure)
    \/ LadderFirst
    \/ \E r \in 0..(Resolution - 1) : LadderStep(r)

----------------------------------------------------------------------------
(* optimize_mealplan (streprogen/optimization.py): the solve and its one   *)
(* retry.  The solver is outside the program: each solve reports           *)
(* INFEASIBLE or not, by choice.                                           *)

\* params: what the caller's dictionary holds under "first_call" ("absent" when
\* the key is not set); fresh: the same for the "params = dict()" of a call made
\* with params=None; log: the top-level calls that ended, with their solves
NoMealplan == [status |-> "idle", params |-> "absent", fresh |-> "absent",
               given |-> "None", first_call |-> TRUE, attempts |-> 0, log |-> <<>>]

\* params.get("first_call", True)
GetFirstCall(value) == IF value = "absent" THEN TRUE ELSE value = "True"

\* a top-level optimize_mealplan(..., params=given) up to solver.Solve():
\* given is "dict" for the caller's dictionary and "None" for no dictionary
MealplanCall(given) ==
    /\ mealplan.status = "idle"
    /\ Len(mealplan.log) < MaxMealCalls
    /\ mealplan' = [mealplan EXCEPT
            !.status = "solving",
            !.given = given,
            !.fresh = "absent",
            !.first_call = GetFirstCall(IF given = "dict" THEN mealplan.params
                                                         ELSE "absent"),
            !.attempts = 0]
    /\ UNCHANGED <<genVars, optVars, samplingVars, programVars>>

\* solver.Solve() and what follows it: on INFEASIBLE with first_call the flag is
\* stored in the dictionary and the function calls itself with that dictionary,
\* up to its solver.Solve(); on INFEASIBLE without first_call it raises;
\* otherwise it returns the solution
MealplanSolve(result_status) ==
    /\ mealplan.status = "solving"
    /\ mealplan' =
          IF result_status = "INFEASIBLE" /\ mealplan.first_call
          THEN [mealplan EXCEPT
                    !.attempts = @ + 1,
                    !.params = IF mealplan.given = "dict" THEN "False" ELSE @,
                    !.fresh = IF mealplan.given = "dict" THEN @ ELSE "False",
                    !.first_call = GetFirstCall("False")]
          ELSE [mealplan EXCEPT
                    !.status = "idle",
                    !.attempts = @ + 1,
                    !.log = Append(@, [given |-> mealplan.given,
                                       attempts |-> mealplan.attempts + 1,
                                       outcome |-> IF result_status = "INFEASIBLE"
                                                   THEN "RuntimeError"
                                                   ELSE "returned"])]
    /\ UNCHANGED <<genVars, optVars, samplingVars, programVars>>

MealplanNext ==
    \/ \E given \in {"dict", "None"} : MealplanCall(given)
    \/ \E result_status \in {"INFEASIBLE", "OPTIMAL"} : MealplanSolve(result_status)

----------------------------------------------------------------------------
(* The initial values of the variables outside the selection engine.       *)

InitRest ==
    /\ sampler = NoSampler
    /\ ladder = NoLadder
    /\ exercises = NoExercises
    /\ days = NoDays
    /\ program = NoProgram
    /\ mealplan = NoMealplan

----------------------------------------------------------------------------
(* One generator of any configuration, and one generate() call on it.      *)

GenerateInputs == AscendingSeqs(0..MaxRep)
GoalInputs == -1..MaxGoal

NoCall == [key |-> <<>>, outcome |-> "none", value |-> <<>>, hit |-> FALSE, n |-> 0]

Init ==
    /\ reps_slack \in 0..MaxSlack
    /\ max_diff \in 0..MaxDiff
    /\ max_unique \in 1..MaxUnique
    /\ self_sets = <<>>
    /\ self_reps_goal = 0
    /\ iters = [k \in IterIds |-> NoIter]
    /\ cache = <<>>
    /\ last = NoCall
    /\ pending = <<>>
    /\ gen_calls = <<>>
    /\ served = <<>>
    /\ chain = NoChain
    /\ InitRest

Next ==
    \/ \E sets \in GenerateInputs, goal \in GoalInputs : GenerateCall(1, sets, goal)
    \/ Begin(1)
    \/ Resume(1)
    \/ Entry(1)
    \/ Check(1)
    \/ Loop(1)

Spec == Init /\ [][Next]_vars

FairSpec == Spec /\ WF_vars(Next)

----------------------------------------------------------------------------
(* One optimizer.  Its generator is the default one or one of those of the *)
(* docstring of RepSchemeGenerator.                                        *)

SelectConfigs ==
    { <<DefaultRepsSlack, DefaultMaxDiff, DefaultMaxUnique>>,
      <<0, 2, DefaultMaxUnique>>, <<1, 2, DefaultMaxUnique>>, <<0, 1, 1>> }

IntensityInputs == {x * Unit : x \in 1..MaxIntensity}

\* the keys (sets, intensities, reps_goal, intensity_goal) the optimizer is called with
SelectKeys ==
    UNION { { <<sets, intensities, reps_goal, intensity_goal>> :
                intensities \in [1..Len(sets) -> IntensityInputs],
                reps_goal \in 0..MaxGoal,
                intensity_goal \in IntensityInputs } :
            sets \in AscendingSeqs(1..MaxSelectRep) }

InitOptimizer ==
    /\ \E c \in SelectConfigs :
        reps_slack = c[1] /\ max_diff = c[2] /\ max_unique = c[3]
    /\ self_sets = <<>>
    /\ self_reps_goal = 0
    /\ iters = [k \in IterIds |-> NoIter]
    /\ cache = <<>>
    /\ last = NoCall
    /\ pending = <<>>
    /\ gen_calls = <<>>
    /\ served = <<>>
    /\ chain = NoChain
    /\ InitRest

\* one call on a new optimizer, with any key
SelectNext == \E key \in SelectKeys : TotalCalls = 0 /\ Call(key)

SelectSpec == InitOptimizer /\ [][SelectNext]_vars

\* the keys of the calls that follow one another on one optimizer
CacheKeys ==
    { <<sets, intensities, reps_goal, intensity_goal>> :
        sets \in { <<1, 2>>, <<2, 3>> },
        intensities \in { <<3 * Unit, 2 * Unit>>, <<3 * Unit, Unit>> },
        reps_goal \in {1, 5},
        intensity_goal \in {2 * Unit, 3 * Unit} }

CacheNext == \E key \in CacheKeys : Call(key)

CacheSpec == InitOptimizer /\ [][CacheNext]_vars

----------------------------------------------------------------------------
(* The default optimizer called once with the domain 1..12 and the         *)
(* intensities of reps_to_intensity, as in test_repscheme_optimizer.  The  *)
(* call is taken in two steps: the drain of the generator reads only sets  *)
(* and reps_goal, so the intensities and the intensity goal of the call are*)
(* drawn at the second step, where min() first reads them.                 *)

\* reps_to_intensity(reps, slope, constant=97.5, quadratic=True) in units of 1 / Unit
reps_to_intensity(reps, slope) ==
    (975 * Unit) \div 10 + slope * (reps - 1) + (5 * Unit * (reps - 1) * (reps - 1)) \div 100

\* the slopes of reps_to_intensity, reps_to_intensity_tight and
\* reps_to_intensity_relaxed: -3.5, -3.25 and -3.75
Slopes == { -(35 * Unit) \div 10, -(325 * Unit) \div 100, -(375 * Unit) \div 100 }

\* reps = tuple(range(1, 12 + 1))
TestReps == [r \in 1..12 |-> r]

\* intensities = tuple(reps_to_intensity_func(r) for r in reps)
TestIntensities(slope) == [r \in 1..12 |-> reps_to_intensity(TestReps[r], slope)]

TestRepsGoals == 15..35
TestIntensityGoals == {x * Unit : x \in 70..90}

InitDefault ==
    /\ reps_slack = DefaultRepsSlack
    /\ max_diff = DefaultMaxDiff
    /\ max_unique = DefaultMaxUnique
    /\ self_sets = <<>>
    /\ self_reps_goal = 0
    /\ iters = [k \in IterIds |-> NoIter]
    /\ cache = <<>>
    /\ last = NoCall
    /\ pending = <<>>
    /\ gen_calls = <<>>
    /\ served = <<>>
    /\ chain = NoChain
    /\ InitRest

\* __call__ on the new optimizer up to "schemes = self.generator.generate(...)",
\* drained: nothing is cached yet and the assertions on sets and reps_goal hold
DefaultDrain(reps_goal) ==
    /\ TotalCalls = 0
    /\ pending = <<>>
    /\ reps_goal > 0
    /\ GenerateAsserts(TestReps, reps_goal)
    /\ self_sets' = SortedUnique(TestReps)
    /\ self_reps_goal' = reps_goal
    /\ pending' = <<TestReps, reps_goal,
                    Generate(TestReps, reps_goal, reps_slack, max_diff, max_unique)>>
    /\ UNCHANGED <<reps_slack, max_diff, max_unique, iters, cache, last, gen_calls, served, samplingVars, programVars, mealplan>>

\* the rest of the call: min(schemes, key=loss), reversed, stored and returned
DefaultSelect(slope, intensity_goal) ==
    /\ pending # <<>>
    /\ LET sets == pending[1]
           reps_goal == pending[2]
           schemes == pending[3]
           intensities == TestIntensities(slope)
           key == <<sets, intensities, reps_goal, intensity_goal>>
       IN  /\ CallAsserts(sets, intensities, reps_goal, intensity_goal)
           /\ gen_calls' = (key :> Drains(key) + 1) @@ gen_calls
           /\ Optimize(key, schemes, RepsToIntensityDict(sets, intensities))
    /\ pending' = <<>>
    /\ UNCHANGED <<reps_slack, max_diff, max_unique, self_sets, self_reps_goal, iters, samplingVars, programVars, mealplan>>

DefaultNext ==
    \/ \E reps_goal \in TestRepsGoals : DefaultDrain(reps_goal)
    \/ \E slope \in Slopes, intensity_goal \in TestIntensityGoals :
          DefaultSelect(slope, intensity_goal)

DefaultSpec == InitDefault /\ [][DefaultNext]_vars

----------------------------------------------------------------------------
(* What the claims speak of: the iterator under study and its arguments.   *)

it == iters[1]

Exhausted == it.status = "exhausted"

\* all the non-decreasing tuples over the values D (positive) of sum at most b
RECURSIVE NonDecreasing(_, _)
NonDecreasing(D, b) ==
    {<<>>} \cup UNION { { <<v>> \o t : t \in NonDecreasing({w \in D : w >= v}, b - v) } :
                        v \in {w \in D : w <= b} }

\* the hard constraints, stated on a tuple
WithinSlack(c, goal, slack) == abs(sum(c) - goal) <= slack
StepsWithin(c, diff) == \A x \in 1..(Len(c) - 1) : 0 <= c[x + 1] - c[x] /\ c[x + 1] - c[x] <= diff
UniqueWithin(c, unique) == Cardinality(set(c)) <= unique

\* the non-empty non-decreasing tuples over D that meet the three hard constraints
Admissible(D, goal, slack, diff, unique) ==
    { c \in NonDecreasing(D, goal + slack) :
        /\ c # <<>>
        /\ WithinSlack(c, goal, slack)
        /\ StepsWithin(c, diff)
        /\ UniqueWithin(c, unique) }

\* Lemma: a drained iterator has yielded what the pure function Generate gives
DrainIsGenerate ==
    Exhausted => it.out = Generate(it.sets, it.reps_goal, reps_slack, max_diff, max_unique)

\* C1: every tuple yielded by generate(domain, reps_goal) is non-empty and its
\* sum is within reps_slack of reps_goal.
C1_YieldedWithinSlack ==
    \A x \in DOMAIN it.out :
        it.out[x] # <<>> /\ abs(sum(it.out[x]) - it.reps_goal) <= reps_slack

\* a drained call that yielded a tuple below the goal and a tuple above it
C1_Witness ==
    /\ Exhausted
    /\ \E x, y \in DOMAIN it.out :
        sum(it.out[x]) < it.reps_goal /\ sum(it.out[y]) > it.reps_goal

\* C2: every yielded tuple is non-decreasing and consecutive elements differ
\* by at most max_diff.
C2_YieldedStepsWithinMaxDiff ==
    \A x \in DOMAIN it.out :
        \A y \in 1..(Len(it.out[x]) - 1) :
            /\ 0 <= it.out[x][y + 1] - it.out[x][y]
            /\ it.out[x][y + 1] - it.out[x][y] <= max_diff

\* a drained call over a domain with a gap larger than max_diff that yielded a
\* tuple with a step of exactly max_diff > 0
C2_Witness ==
    /\ Exhausted
    /\ max_diff > 0
    /\ \E a, b \in set(it.sets) : b - a > max_diff
    /\ \E x \in DOMAIN it.out : \E y \in 1..(Len(it.out[x]) - 1) :
        it.out[x][y + 1] - it.out[x][y] = max_diff

\* C3: every yielded tuple holds at most max_unique distinct values.
C3_YieldedAtMostMaxUnique ==
    \A x \in DOMAIN it.out : Cardinality(set(it.out[x])) <= max_unique

\* a drained call whose search found a tuple of more than max_unique distinct
\* values within the slack, and that yielded some tuple
C3_Witness ==
    /\ Exhausted
    /\ it.out # <<>>
    /\ \E c \in set(GenerateSets(0, <<>>, self_sets, it.reps_goal, reps_slack, max_diff)) :
        Cardinality(set(c)) > max_unique

\* C4: a drained generate(domain, reps_goal) has yielded exactly the non-empty
\* non-decreasing tuples over the domain that meet the three hard constraints.
C4_YieldsExactlyAdmissible ==
    (Exhausted /\ GenerateAsserts(it.sets, it.reps_goal)) =>
        set(it.out) = Admissible(set(it.sets), it.reps_goal, reps_slack, max_diff, max_unique)

\* RepSchemeGenerator(reps_slack=1, max_diff=1, max_unique=2) drained on the domain
\* [1, 2, 3] with goal 5: twelve tuples, (1, 1, 3) and (1, 2, 3) not among them
C4_Witness ==
    /\ Exhausted
    /\ it.sets = <<1, 2, 3>> /\ it.reps_goal = 5
    /\ reps_slack = 1 /\ max_diff = 1 /\ max_unique = 2
    /\ it.out = << <<1, 1, 1, 1>>, <<1, 1, 1, 1, 1>>, <<1, 1, 1, 1, 1, 1>>, <<1, 1, 1, 1, 2>>,
                   <<1, 1, 1, 2>>, <<1, 1, 2>>, <<1, 1, 2, 2>>, <<1, 2, 2>>, <<2, 2>>,
                   <<2, 2, 2>>, <<2, 3>>, <<3, 3>> >>

\* C9: generate(domain, reps_goal) with a domain of positive integers and
\* reps_goal >= 0, pulled from until it ends, is exhausted after finitely many steps.
C9_GenerateTerminates ==
    (it.status = "created" /\ GenerateAsserts(it.sets, it.reps_goal)) ~> Exhausted

\* a drained call that yielded at least five tuples
C9_Witness == Exhausted /\ Len(it.out) >= 5

\* what the generator of the optimizer yields for the key of the latest call
Yielded == Generate(last.key[1], last.key[3], reps_slack, max_diff, max_unique)

Returned == last.outcome = "returned"

\* Unit ** 2 * reps ** 2 times the loss of scheme c for the key of the latest call:
\* Unit ** 2 * reps ** 2 * (sum(c) - reps_goal) ** 2
\*   + (sum(r * intensity(r) for r in c) - intensity_goal * reps) ** 2, reps = sum(c)
ScaledLoss(c) ==
    LET dict == RepsToIntensityDict(last.key[1], last.key[2])
        weighted == WeightedSum(c, dict)
    IN  Unit * Unit * sum(c) * sum(c) * (sum(c) - last.key[3]) * (sum(c) - last.key[3])
        + (weighted - last.key[4] * sum(c)) * (weighted - last.key[4] * sum(c))

\* loss(c) <= loss(d), the two losses brought to a common denominator
LossAtMost(c, d) == ScaledLoss(c) * sum(d) * sum(d) <= ScaledLoss(d) * sum(c) * sum(c)

\* C5: on a cache miss select returns the reversal of a yielded candidate whose
\* loss is at most the loss of every yielded candidate.
C5_ReturnsReversedMinimum ==
    (Returned /\ ~last.hit) =>
        LET candidates == set(Yielded)
        IN  \E c \in candidates :
                /\ last.value = reversed(c)
                /\ \A d \in candidates : LossAtMost(c, d)

\* a miss with at least three candidates where the one returned is not the first
\* one yielded and the first one yielded has a larger loss
C5_Witness ==
    /\ Returned /\ ~last.hit
    /\ LET first == Head(Yielded)
       IN  /\ last.value # reversed(first)
           /\ ~LossAtMost(first, reversed(last.value))
    /\ Len(Yielded) >= 3

\* C6: every scheme select returns is in non-increasing order of rep counts.
C6_ReturnedDescending ==
    Returned => \A x \in 1..(Len(last.value) - 1) : last.value[x] >= last.value[x + 1]

\* a returned scheme that starts higher than it ends
C6_Witness == Returned /\ Len(last.value) >= 3 /\ last.value[1] > last.value[Len(last.value)]

\* C7: a select call repeated with the same key returns the scheme the first call
\* returned and is served from the cache; the generator is drained at most once
\* for a key that select returned for.
C7_RepeatedCallServedFromCache ==
    /\ Returned => last.value = served[last.key].first
    /\ (Returned /\ Returns(last.key) >= 2) => last.hit
    /\ \A key \in DOMAIN served : Drains(key) <= 1

\* the second return for a key, from a cache that holds another key too
C7_Witness ==
    /\ Returned /\ last.hit
    /\ Returns(last.key) = 2
    /\ Cardinality(DOMAIN cache) = 2

\* C8: for the default optimizer, the domain 1..12 with the intensities of
\* reps_to_intensity (slope -3.5, -3.25 or -3.75), reps_goal in 15..35 and
\* intensity_goal in 70..90, the returned scheme has |total reps - reps_goal| <= 3
\* and |reps-weighted average intensity - intensity_goal| <= 3.5.
C8_DefaultOptimizerCloseToGoals ==
    Returned =>
        LET reps == sum(last.value)
            weighted == WeightedSum(last.value, RepsToIntensityDict(last.key[1], last.key[2]))
        IN  /\ abs(reps - last.key[3]) <= 3
            /\ 10 * abs(weighted - last.key[4] * reps) <= 35 * Unit * reps

\* a returned scheme whose average intensity is more than 3 away from the goal
C8_Witness ==
    /\ Returned
    /\ abs(WeightedSum(last.value, RepsToIntensityDict(last.key[1], last.key[2]))
           - last.key[4] * sum(last.value)) > 3 * Unit * sum(last.value)

CallValid ==
    last.n > 0 /\ CallAsserts(last.key[1], last.key[2], last.key[3], last.key[4])

\* Lemma: when the generator yields nothing the call raises the ValueError of
\* min(), stores nothing and leaves the configuration of the generator alone
NoCandidateRaises ==
    (CallValid /\ ~last.hit /\ Yielded = <<>>) =>
        /\ last.outcome = "ValueError"
        /\ last.key \notin DOMAIN cache
        /\ \E c \in SelectConfigs : <<reps_slack, max_diff, max_unique>> = c

\* C11: when the generator yields no candidate for (domain, reps_goal), select
\* fails with an error of its own that names the infeasibility ("no feasible
\* scheme"), not with whatever an inner call happens to raise.
C11_NoCandidateExplicitError ==
    (CallValid /\ ~last.hit /\ Yielded = <<>>) => last.outcome = "NoFeasibleScheme"

\* reps_goal <= 0, intensity_goal <= 1 or some intensity <= 1 in the latest call
BadNumbers ==
    \/ last.key[3] <= 0
    \/ last.key[4] <= Unit
    \/ \E x \in DOMAIN last.key[2] : last.key[2][x] <= Unit

\* C12: a select call with reps_goal <= 0, intensity_goal <= 1 or an intensity
\* <= 1 ends in an AssertionError; it is no cache hit, the generator was not
\* invoked (generate set neither self.sets nor self.reps_goal, nothing was
\* drained) and the cache is as it was.
C12_BadNumbersRejectedFirst ==
    (last.n > 0 /\ BadNumbers) =>
        /\ last.outcome = "AssertionError"
        /\ ~last.hit
        /\ gen_calls = <<>>
        /\ self_sets = <<>> /\ self_reps_goal = 0
        /\ cache = <<>>

\* a rejected call whose only fault is reps_goal = 0, on a domain and a table
\* for which a positive goal is served
C12_Witness ==
    /\ last.n > 0
    /\ last.outcome = "AssertionError"
    /\ last.key[3] = 0
    /\ CallAsserts(last.key[1], last.key[2], 1, last.key[4])
    /\ Generate(last.key[1], 1, reps_slack, max_diff, max_unique) # <<>>

----------------------------------------------------------------------------
(* One call of an optimizer with a domain in any order, repeats included.  *)

DomainKeys ==
    UNION { { <<sets, intensities, reps_goal, intensity_goal>> :
                intensities \in [1..Len(sets) -> {2 * Unit, 3 * Unit}],
                reps_goal \in 1..MaxGoal,
                intensity_goal \in {2 * Unit, 3 * Unit} } :
            sets \in AnySeqs(1..MaxSelectRep, MaxDomainLen) }

DomainNext == \E key \in DomainKeys : TotalCalls = 0 /\ Call(key)

DomainSpec == InitOptimizer /\ [][DomainNext]_vars

StrictlyAscending(s) == \A x \in 1..(Len(s) - 1) : s[x] < s[x + 1]

\* the latest call ended in an AssertionError and never reached the generator
RejectedFirst ==
    /\ last.outcome = "AssertionError"
    /\ gen_calls = <<>>
    /\ self_sets = <<>> /\ self_reps_goal = 0

\* Lemma: a domain that is out of order is rejected before any candidate is made
UnsortedRejected ==
    (last.n > 0 /\ \E x \in 1..(Len(last.key[1]) - 1) : last.key[1][x] > last.key[1][x + 1])
        => RejectedFirst

\* C13: a select call whose domain is not sorted strictly ascending (out of
\* order, or with a repeated value) ends in an AssertionError before any
\* candidate is generated.
C13_OnlyStrictlyAscendingAccepted ==
    (last.n > 0 /\ ~StrictlyAscending(last.key[1])) => RejectedFirst

\* intensity_goal of the latest call is below every intensity of the table or
\* above every one
GoalOutsideTable ==
    \/ \A x \in DOMAIN last.key[2] : last.key[4] < last.key[2][x]
    \/ \A x \in DOMAIN last.key[2] : last.key[4] > last.key[2][x]

\* C14: a select call with valid arguments whose intensity_goal lies outside
\* the range of the intensity table, on a domain and goal for which the
\* generator yields a candidate, returns: the reversal of a yielded candidate
\* of minimum loss.
C14_GoalOutsideTableStillReturns ==
    (/\ last.n > 0 /\ ~BadNumbers /\ StrictlyAscending(last.key[1])
     /\ GoalOutsideTable /\ Yielded # <<>>) =>
        /\ Returned
        /\ LET candidates == set(Yielded)
           IN  \E c \in candidates :
                   /\ last.value = reversed(c)
                   /\ \A d \in candidates : LossAtMost(c, d)

\* a scheme returned for a goal above every intensity of a table of two
\* different intensities, chosen among several candidates
C14_Witness ==
    /\ Returned
    /\ Len(last.key[2]) = 2 /\ last.key[2][1] # last.key[2][2]
    /\ \A x \in DOMAIN last.key[2] : last.key[4] > last.key[2][x]
    /\ Len(Yielded) >= 3

\* what a new optimizer with this generator configuration returns for key, when
\* the generator yields a candidate for it
FreshSelect(key) ==
    reversed(Min(Generate(key[1], key[3], reps_slack, max_diff, max_unique),
                 RepsToIntensityDict(key[1], key[2]), key[3], key[4]))

\* C15: whatever calls an optimizer has served before, the scheme it returns for
\* (domain, intensity_table, reps_goal, intensity_goal) is the one a new
\* optimizer with the same generator configuration returns for it; so two
\* optimizers with different histories return the same scheme.
C15_ReturnIndependentOfHistory ==
    Returned => last.value = FreshSelect(last.key)

\* a cache hit of an optimizer that has also served the same domain, table and
\* reps_goal with another intensity_goal, for which it returned another scheme
C15_Witness ==
    /\ Returned /\ last.hit
    /\ \E key \in DOMAIN served :
        /\ key # last.key
        /\ <<key[1], key[2], key[3]>> = <<last.key[1], last.key[2], last.key[3]>>
        /\ served[key].first # last.value

\* a drained generate(domain, 0) whose arguments passed the assertions
DrainedGoalZero ==
    Exhausted /\ GenerateAsserts(it.sets, it.reps_goal) /\ it.reps_goal = 0

\* C16 as claimed: generate(domain, reps_goal=0) yields no candidates, for every
\* domain of positive integers and every reps_slack >= 0.
C16_GoalZeroYieldsNothing ==
    DrainedGoalZero => it.out = <<>>

\* C16 as amended: generate(domain, reps_goal=0) yields no candidates exactly
\* when every value of the domain exceeds reps_slack, so always when
\* reps_slack = 0; a value v <= reps_slack is yielded as (v,).
C16_GoalZeroYieldsNothingAboveSlack ==
    DrainedGoalZero =>
        /\ (it.out = <<>>) <=> (\A v \in set(it.sets) : v > reps_slack)
        /\ \A v \in set(it.sets) : v <= reps_slack => \E x \in DOMAIN it.out : it.out[x] = <<v>>

\* a drained generate(domain, 0) with reps_slack > 0 over a domain of several
\* values, all above reps_slack
C16_Witness ==
    /\ DrainedGoalZero
    /\ reps_slack > 0
    /\ Len(it.sets) >= 2
    /\ \A v \in set(it.sets) : v > reps_slack
    /\ it.out = <<>>

\* the generate call has ended: its iterator is exhausted or its body raised
Ended1 == it.status \in {"exhausted", "AssertionError", "IndexError"}

\* C17: a generate call with an empty domain ends in an AssertionError; it does
\* not end normally with no candidates.
C17_EmptyDomainRejected ==
    (Ended1 /\ it.sets = <<>>) => it.status = "AssertionError"

----------------------------------------------------------------------------
(* Two generate() calls on one generator, pulled from in any order.  The   *)
(* interpreter runs one body at a time: an iterator is started or resumed  *)
(* only while no other one is running, that is at a yield of the other.    *)

InterleavedInputs == { <<sets, goal>> : sets \in { <<1, 2>>, <<3>> }, goal \in {3, 4} }

InterleavedNext ==
    \E k \in IterIds :
        \/ \E input \in InterleavedInputs : GenerateCall(k, input[1], input[2])
        \/ Begin(k)
        \/ Resume(k)
        \/ Entry(k)
        \/ Check(k)
        \/ Loop(k)

InterleavedSpec == Init /\ [][InterleavedNext]_vars

\* s is an initial part of t
IsPrefix(s, t) == Len(s) <= Len(t) /\ SubSeq(t, 1, Len(s)) = s

\* C18: what a generate(domain, reps_goal) call yields depends only on its
\* arguments and the configuration, also when another generate call on the same
\* generator is pulled from in between: at any time it has yielded an initial
\* part of what the call yields when drained alone, and once ended it has
\* yielded all of it.
C18_InterleavedCallsIndependent ==
    \A k \in IterIds :
        LET alone == Generate(iters[k].sets, iters[k].reps_goal,
                              reps_slack, max_diff, max_unique)
        IN  /\ IsPrefix(iters[k].out, alone)
            /\ iters[k].status # "IndexError"
            /\ iters[k].status = "exhausted" => iters[k].out = alone

----------------------------------------------------------------------------
(* One generate() call whose domain is given in any order, repeats         *)
(* included, on a generator of one of the configurations of SelectConfigs. *)

PermutedInputs == AnySeqs(1..MaxSelectRep, MaxDomainLen)

PermutedNext ==
    \/ \E sets \in PermutedInputs, goal \in {2, 3} : GenerateCall(1, sets, goal)
    \/ Begin(1)
    \/ Resume(1)
    \/ Entry(1)
    \/ Check(1)
    \/ Loop(1)

PermutedSpec == InitOptimizer /\ [][PermutedNext]_vars

\* the values of a domain in ascending order, each once
RECURSIVE Ascending(_)
Ascending(S) ==
    IF S = {} THEN <<>>
    ELSE LET hi == CHOOSE x \in S : \A y \in S : y <= x
         IN  Append(Ascending(S \ {hi}), hi)

\* C19: a drained generate(domain, reps_goal) has yielded the sequence of
\* candidates that the call yields on the values of the domain passed in
\* ascending order without repeats, whatever the order and the repeats of the
\* domain passed.
C19_OutputDependsOnValuesOnly ==
    Exhausted =>
        it.out = PruneUnique(GenerateSets(0, <<>>, Ascending(set(it.sets)),
                                          it.reps_goal, reps_slack, max_diff),
                             max_unique)

\* a drained call on a domain passed out of order and with a repeated value,
\* that yielded several candidates
C19_Witness ==
    /\ Exhausted
    /\ \E x \in 1..(Len(it.sets) - 1) : it.sets[x] > it.sets[x + 1]
    /\ Cardinality(set(it.sets)) < Len(it.sets)
    /\ Len(it.out) >= 3

----------------------------------------------------------------------------
(* One sample_markov_loop iterator, pulled at most MaxSamples times.       *)

MarkovSpec == InitDefault /\ [][MarkovNext]_vars

\* C20: the first state yielded by sample_markov_loop is 0, and every later
\* state s' follows the state s before it with (s' - s) mod n < k, where
\* n = len(probabilities) and k = len(structure) as passed
C20_JumpsForwardLessThanStructure ==
    chain.status = "yielded" =>
        /\ chain.samples = 1 => chain.state = 0
        /\ chain.samples >= 2 =>
              (chain.state - chain.previous) % Len(chain.probabilities)
                  < Len(chain.structure)

\* the part of C20 that the draws cannot break: the first state yielded is 0
\* and every state yielded is one of 0..n-1
FirstIsZeroAndInRange ==
    chain.status = "yielded" =>
        /\ chain.samples = 1 => chain.state = 0
        /\ chain.state \in 0..(Len(chain.probabilities) - 1)

\* a draw above 0 jumps forward by fewer steps than the structure has entries
PositiveDrawsJumpForward ==
    [][\A r \in 1..(Resolution - 1) :
          MarkovStep(r) =>
              (chain'.state - chain.state) % Len(chain.probabilities)
                  < Len(chain.structure)]_vars

----------------------------------------------------------------------------
(* One program of dynamic exercises, up to its autoset.                    *)

ProgramSpec == InitDefault /\ [][ProgramNext]_vars

\* the mode detected from the exercises' repetition ranges
DetectedMode ==
    IF DetectWeekly THEN "weekly" ELSE IF DetectDaily THEN "daily" ELSE "exercise"

\* weekly is broader than daily, daily broader than exercise
Breadth(mode) == CASE mode = "weekly" -> 3 [] mode = "daily" -> 2 [] mode = "exercise" -> 1

\* C21: after _autoset_min_reps_consistency, a user's min_reps_consistency that
\* is not None and not broader than the detected mode is the effective mode
C21_UserModeOverridesDetected ==
    ( /\ program.status \in {"autoset", "ProgramError"}
      /\ program.min_reps_consistency # "None"
      /\ Breadth(program.min_reps_consistency) <= Breadth(DetectedMode) )
    => /\ program.status = "autoset"
       /\ program._min_reps_consistency = program.min_reps_consistency

\* what the code does do: the user's mode is effective when 'daily' is detected,
\* and a broader one is refused there; a detected 'weekly' or 'exercise' stands
AutosetOutcome ==
    program.status \in {"autoset", "ProgramError"} =>
        /\ program.status = "ProgramError" <=>
              (DetectedMode = "daily" /\ program.min_reps_consistency = "weekly")
        /\ (DetectedMode # "daily" /\ program.status = "autoset") =>
              program._min_reps_consistency = DetectedMode
        /\ (DetectedMode = "daily" /\ program.status = "autoset"
                /\ program.min_reps_consistency # "None") =>
              program._min_reps_consistency = program.min_reps_consistency

----------------------------------------------------------------------------
(* Exercises of both kinds and the days that hold them.                    *)

DaySpec == InitDefault /\ [][DayNext]_vars

\* the exercises of one kind among those a day was given, in the order given
OfKind(d, kind) == SelectSeq(days[d].added, LAMBDA e : exercises[e].kind = kind)

\* days keep their exercises in insertion order, each kind in its own list
InsertionOrder ==
    \A d \in DayIds :
        /\ days[d].dynamic_exercises = OfKind(d, "dynamic")
        /\ days[d].static_exercises = OfKind(d, "static")

\* C22: every dynamic exercise in a day's dynamic_exercises refers back to that
\* day through its day attribute, and days keep their exercises in insertion order
C22_ExercisesReferBackToTheirDay ==
    /\ \A d \in DayIds : \A e \in set(days[d].dynamic_exercises) : exercises[e].day = d
    /\ InsertionOrder

\* the days whose dynamic_exercises hold e
HoldersOf(e) == { d \in DayIds : e \in set(days[d].dynamic_exercises) }

\* C22, amended: a dynamic exercise refers to one of the days that hold it (the
\* one it was given to last), hence to its day when one day only holds it, and to
\* no day when none does; days keep their exercises in insertion order
C22_ExercisesReferToAHoldingDay ==
    /\ \A e \in ExerciseIds :
          IF HoldersOf(e) = {} THEN exercises[e].day = 0
          ELSE exercises[e].day \in HoldersOf(e)
    /\ InsertionOrder

\* a day given a static and then a dynamic exercise, which refers back to it
C22_Witness ==
    /\ exercises[1].kind = "static"
    /\ exercises[2].kind = "dynamic"
    /\ days[1].added = <<1, 2>>
    /\ days[1].dynamic_exercises = <<2>>
    /\ days[1].static_exercises = <<1>>
    /\ exercises[2].day = 1

\* the scaled loss and the total of each candidate of ys, by position
LossesOf(ys) == [x \in DOMAIN ys |-> <<ScaledLoss(ys[x]), sum(ys[x])>>]

\* the positions of the candidates of minimum loss, losses compared as in LossAtMost
MinimalPositions(ls) ==
    { x \in DOMAIN ls :
        \A y \in DOMAIN ls : ls[x][1] * ls[y][2] * ls[y][2] <= ls[y][1] * ls[x][2] * ls[x][2] }

\* C23: when several candidates share the minimum loss, select returns the
\* reversal of the one the generator yields first.
C23_TieGoesToFirstYielded ==
    (Returned /\ ~last.hit) =>
        \E ys \in {Yielded} :
            \E minimal \in {MinimalPositions(LossesOf(ys))} :
                \E x \in minimal :
                    /\ \A y \in minimal : x <= y
                    /\ last.value = reversed(ys[x])

\* a miss where two different candidates share the minimum loss
C23_Witness ==
    /\ Returned /\ ~last.hit
    /\ \E ys \in {Yielded} :
          \E minimal \in {MinimalPositions(LossesOf(ys))} :
              \E x, y \in minimal : ys[x] # ys[y]

\* a < b in lexicographic order, a tuple coming before each of its extensions
LexLess(a, b) ==
    \E n \in 0..Len(a) :
        /\ n <= Len(b)
        /\ \A x \in 1..n : a[x] = b[x]
        /\ IF n = Len(a) THEN Len(b) > n ELSE Len(b) > n /\ a[n + 1] < b[n + 1]

\* Lemma: the doctest of RepSchemeGenerator, domain [2, 3, 4], reps_slack=1,
\* max_diff=2, reps_goal=6
DoctestOrder ==
    Generate(<<2, 3, 4>>, 6, 1, 2, DefaultMaxUnique)
        = << <<2, 2, 2>>, <<2, 2, 3>>, <<2, 3>>, <<2, 4>>, <<3, 3>>, <<3, 4>> >>

\* C24: at every point of a generate call, the candidates yielded so far are
\* ascending tuples in strictly increasing lexicographic order, every tuple
\* before its own extensions.
C24_YieldedInDepthFirstOrder ==
    /\ \A x \in DOMAIN it.out :
          \A y \in 1..(Len(it.out[x]) - 1) : it.out[x][y] <= it.out[x][y + 1]
    /\ \A x \in 1..(Len(it.out) - 1) : LexLess(it.out[x], it.out[x + 1])

\* a call on an unsorted domain with a repeated value, suspended after it yielded
\* a tuple, then an extension of it, then a tuple that extends neither
C24_Witness ==
    /\ it.status = "suspended"
    /\ it.sets = <<2, 1, 2>>
    /\ \E x \in 1..(Len(it.out) - 2) :
          /\ Len(it.out[x + 1]) = Len(it.out[x]) + 1
          /\ SubSeq(it.out[x + 1], 1, Len(it.out[x])) = it.out[x]
          /\ Len(it.out[x + 2]) <= Len(it.out[x])
          /\ it.out[x + 2] # it.out[x]

----------------------------------------------------------------------------
(* Calls that follow one another on one optimizer, by a caller that may    *)
(* change the lists it received.                                           *)

AliasNext ==
    \/ \E key \in CacheKeys : Call(key)
    \/ \E key \in CacheKeys, method \in {"pop", "reverse"} : CallerModifies(key, method)

AliasSpec == InitOptimizer /\ [][AliasNext]_vars

\* C25: each cache entry holds the scheme select computed for its key and is
\* never changed, also when a caller modifies a list it received; a later select
\* with the key returns the scheme first computed.
C25_CacheEntriesNeverChange ==
    /\ \A key \in DOMAIN cache : key \in DOMAIN served /\ cache[key] = served[key].first
    /\ Returned => last.value = served[last.key].first

\* Lemma: entries are never removed, and only a caller's change of a returned
\* list changes one
EntriesStay ==
    [][/\ DOMAIN cache \subseteq DOMAIN cache'
       /\ (\A key \in CacheKeys, method \in {"pop", "reverse"} : ~CallerModifies(key, method))
            => \A key \in DOMAIN cache : cache'[key] = cache[key]]_vars

----------------------------------------------------------------------------
(* Calls of optimize_mealplan that follow one another, with the caller's   *)
(* params dictionary or without one.                                       *)

MealplanSpec == InitDefault /\ [][MealplanNext]_vars

\* C26: a top-level call of optimize_mealplan whose first solve is INFEASIBLE
\* solves once more, raises RuntimeError only after a second INFEASIBLE solve and
\* never solves more than twice, whatever calls were made before it with the
\* same params dictionary.
C26_InfeasibleRetriedOncePerCall ==
    /\ \A x \in DOMAIN mealplan.log :
          /\ mealplan.log[x].attempts <= 2
          /\ mealplan.log[x].outcome = "RuntimeError" => mealplan.log[x].attempts = 2
    /\ mealplan.attempts <= 2

\* Lemma: what does hold.  No call solves more than twice; a call made without a
\* dictionary, or with a dictionary that no call has retried with before, retries
\* once; once a call has retried with the dictionary, no later call with it does
RetryOncePerDictionary ==
    /\ mealplan.attempts <= 2
    /\ \A x \in DOMAIN mealplan.log :
          LET call == mealplan.log[x]
              retried == \E y \in 1..(x - 1) :
                            /\ mealplan.log[y].given = "dict"
                            /\ mealplan.log[y].attempts = 2
          IN  /\ call.attempts <= 2
              /\ (call.given = "None" /\ call.outcome = "RuntimeError") => call.attempts = 2
              /\ (call.given = "dict" /\ ~retried /\ call.outcome = "RuntimeError")
                    => call.attempts = 2
              /\ (call.given = "dict" /\ retried) => call.attempts = 1

\* C27: a select call that fails, by an assertion of __call__ or because the
\* generator yields no candidate, leaves the cache as it was; a failure is not
\* memoized, so a call that fails for want of a candidate has run the generator,
\* also when the same call failed before.
C27_FailedCallLeavesCache ==
    [][(last'.n = last.n + 1 /\ last'.outcome # "returned") =>
          /\ cache' = cache
          /\ ~last'.hit
          /\ last'.outcome = "ValueError" =>
                /\ last'.key \in DOMAIN gen_calls'
                /\ gen_calls'[last'.key] = Drains(last'.key) + 1]_vars

\* the second failure of one call for want of a candidate, on an optimizer whose
\* cache holds a scheme: the generator ran both times
C27_Witness ==
    /\ last.outcome = "ValueError"
    /\ Drains(last.key) = 2
    /\ cache # <<>>
    /\ last.key \notin DOMAIN cache

\* floor((reps_goal + reps_slack) / min(domain)) of the call of iterator 1
LengthBound == (it.reps_goal + reps_slack) \div MinOf(it.sets)

\* C28: during generate, every stack that was extended has a sum of at most
\* reps_goal + reps_slack, no stack holds more than
\* floor((reps_goal + reps_slack) / min(domain)) + 1 elements and no yielded
\* candidate more than floor((reps_goal + reps_slack) / min(domain)).
C28_SearchDepthBounded ==
    (it.sets # <<>> /\ it.status \in {"running", "suspended", "exhausted"}) =>
        /\ \A x \in 1..(Len(it.frames) - 1) :
              sum(it.frames[x].stack) <= it.reps_goal + reps_slack
        /\ \A x \in DOMAIN it.frames : Len(it.frames[x].stack) <= LengthBound + 1
        /\ \A x \in DOMAIN it.out : Len(it.out[x]) <= LengthBound

\* a running call whose stack holds one element more than the bound of the
\* candidates, after it yielded a candidate of the full length
C28_Witness ==
    /\ it.status = "running"
    /\ Len(it.sets) >= 2
    /\ LengthBound >= 3
    /\ Len(Top(1).stack) = LengthBound + 1
    /\ \E x \in DOMAIN it.out : Len(it.out[x]) = LengthBound

----------------------------------------------------------------------------
(* One sample iterator, pulled at most MaxSamples times.                   *)

SamplerSpec == InitDefault /\ [][SamplerNext]_vars

\* C29: when at least one weight is positive, sample(weights) yields only
\* indices of 0..len(weights)-1 whose weight is strictly positive, for every
\* draw of [0, 1), 0 included.
C29_SampledIndexHasPositiveWeight ==
    (sampler.status = "yielded" /\ \E x \in DOMAIN sampler.weights : sampler.weights[x] > 0) =>
        /\ sampler.index \in 0..(Len(sampler.weights) - 1)
        /\ sampler.weights[sampler.index + 1] > 0

\* Lemma: every index yielded is one of 0..len(weights)-1, and it has a
\* positive weight unless it is index 0
SampledIndexInRange ==
    (sampler.status = "yielded" /\ \E x \in DOMAIN sampler.weights : sampler.weights[x] > 0) =>
        /\ sampler.index \in 0..(Len(sampler.weights) - 1)
        /\ sampler.index > 0 => sampler.weights[sampler.index + 1] > 0

----------------------------------------------------------------------------
(* One sample_markov_ladder iterator, pulled at most MaxSamples times.     *)

LadderSpec == InitDefault /\ [][LadderNext]_vars

\* C30: sample_markov_ladder yields only states of 0..n-1, consecutive states
\* differ by less than k = len(structure), and the index drawn addresses an
\* element of the filtered list of reachable states, which is as long as the
\* list of weights; no draw ends in an IndexError.
C30_LadderMovesToNeighbours ==
    /\ ladder.status # "IndexError" \/ ladder.samples = 0
    /\ ladder.status = "yielded" =>
          /\ ladder.state \in 0..(Len(ladder.probabilities) - 1)
          /\ ladder.samples = 1 => ladder.state = 0
          /\ ladder.samples >= 2 =>
                /\ abs(ladder.state - ladder.previous) < Len(ladder.structure)
                /\ Len(ladder.to_draw_probs) = Len(ladder.future_states_filtered)
                /\ ladder.state_index \in 0..(Len(ladder.future_states_filtered) - 1)

\* a ladder of three states or more that stepped down from the top state, where
\* the weights have no entry to the right
C30_Witness ==
    /\ ladder.status = "yielded"
    /\ Len(ladder.probabilities) >= 3
    /\ ladder.previous = Len(ladder.probabilities) - 1
    /\ ladder.state < ladder.previous
    /\ Len(ladder.to_draw_probs) = Len(ladder.structure)

====
